---- MODULE Spec2Model ----
(***************************************************************************)
(* Verification model of AcousticBEM's axisymmetric Helmholtz integral     *)
(* operators (src/Python/HelmholtzIntegralsRAD.py).                        *)
(*                                                                         *)
(* Numbers.  Real quantities are fixed-point integers in units of 1/Scale. *)
(* Meridian points are pairs <<r, z>> of integer coordinates (the tuple    *)
(* index 1 is the source's x[0], index 2 is x[1]).                         *)
(*                                                                         *)
(* Angles.  A sample angle theta of the half-circle integrator is kept as  *)
(* the source's arcAbscissa before the multiplication by pi/segments:      *)
(* theta = arcAbscissa * pi / (segments * Scale).  The source stores       *)
(* (cos theta, sin theta); both are functions of theta alone.              *)
(*                                                                         *)
(* Integrands.  The value of a kernel at one sample is not computed: an    *)
(* evaluation is recorded by what determines it -- the kernel, the         *)
(* quadrature primitive and its end points, the integrator instance the    *)
(* evaluation read, and the closure variable `direction`.                  *)
(***************************************************************************)
EXTENDS Integers, Sequences, FiniteSets, TLC

VARIABLES samples, qpc, segments, qi, rotationFactors, qsum, qres, qstart, qend,
          args, stack, heap, outcome, result

quadVars == <<qpc, segments, qi, rotationFactors, qsum, qres, qstart, qend>>
evalVars == <<args, stack, heap, outcome, result>>
vars == <<samples, quadVars, evalVars>>

(* ------------------------------ bounds -------------------------------- *)
MaxSegments == 4
MaxR == 2
MaxZ == 1
Tol == 1
RecursionLimit == 3

(* --------------------------- fixed point ------------------------------ *)
Scale == 10^4
PiFix == 31416
MulFix(a, b) == (a * b) \div Scale

RECURSIVE ISqrtIter(_, _, _)
ISqrtIter(n, lo, hi) ==
    IF lo >= hi THEN lo
    ELSE LET mid == (lo + hi + 1) \div 2
         IN  IF mid * mid <= n THEN ISqrtIter(n, mid, hi)
                               ELSE ISqrtIter(n, lo, mid - 1)
ISqrt(n) == ISqrtIter(n, 0, 46340)

Sub(a, b) == <<a[1] - b[1], a[2] - b[2]>>
NormFix(v) == ISqrt((v[1] * v[1] + v[2] * v[2]) * Scale * Scale)
Sqrt2Fix == ISqrt(2 * Scale * Scale)
Sign(x) == IF x > 0 THEN 1 ELSE IF x < 0 THEN -1 ELSE 0

(* ---------------------- the 8-point sample table ---------------------- *)
GaussSamples ==
    << <<9801,  506>>, <<8983, 1112>>, <<7628, 1569>>, <<5917, 1813>>,
       <<4083, 1813>>, <<2372, 1569>>, <<1017, 1112>>, << 199,  506>> >>
LocalSamples == GaussSamples

Points == {<<r, z>> : r \in 0..MaxR, z \in 0..MaxZ}
One(x) == Scale

(* ----------------------- CircularIntegratorPi ------------------------- *)
\* line 45: i / shape[0] is Python's true division, so the panel offset of
\* sample i is the fraction i/8 and not the panel number floor(i/8).
ArcAbscissa(tab, i) == (i * Scale) \div Len(tab) + tab[(i % Len(tab)) + 1][1]

CircularIntegratorPi(tab, n) ==
    [segments |-> n,
     rotationFactors |-> [j \in 1..(n * Len(tab)) |-> ArcAbscissa(tab, j - 1)]]

IntegrateTerm(tab, rot, n) == MulFix(tab[(n % Len(tab)) + 1][2], One(rot[n + 1]))
\* mutant: the sum is scaled by pi and not by pi / segments
IntegrateScaleNoSegments(sum, segs) == MulFix(sum, PiFix)
IntegrateScale(sum, segs) == MulFix(sum, PiFix) \div segs

(* ----------------------- ComplexQuadGenerator ------------------------- *)
GenAbscissa(start, end, n) ==
    LET vec == Sub(end, start)
        a   == LocalSamples[n + 1][1]
    IN  <<start[1] * Scale + MulFix(a, a) * vec[1],
          start[2] * Scale + MulFix(a, a) * vec[2]>>
\* mutant: the sample is not weighted by its abscissa
GenTermNoAbscissa(start, end, n) ==
    MulFix(LocalSamples[n + 1][2], One(GenAbscissa(start, end, n))) * Scale
\* the running sum is kept in units of 1/Scale^2
GenTerm(start, end, n) ==
    MulFix(LocalSamples[n + 1][2], One(GenAbscissa(start, end, n))) * LocalSamples[n + 1][1]
GenScale(sum, start, end) == MulFix(2 * (sum \div Scale), NormFix(Sub(end, start)))

Threads == {1, 2}
MakeArgs(fn, k, p, vecp, qa, qb, on) ==
    [fn |-> fn, k |-> k, p |-> p, vecp |-> vecp, qa |-> qa, qb |-> qb, pOnElement |-> on]
NoArgs == MakeArgs("none", 0, <<0, 0>>, <<0, 0>>, <<0, 0>>, <<0, 0>>, FALSE)
NoInstance == [segments |-> 0, rotationFactors |-> <<>>]
EvalIdle ==
    /\ args = [t \in Threads |-> NoArgs]
    /\ stack = [t \in Threads |-> <<>>]
    /\ heap = [t \in Threads |-> NoInstance]
    /\ outcome = [t \in Threads |-> "idle"]
    /\ result = [t \in Threads |-> <<>>]

(* ------------------- the quadrature primitives, stepwise -------------- *)
QuadIdle ==
    /\ qpc = "idle" /\ segments = 0 /\ qi = 0 /\ rotationFactors = <<>>
    /\ qsum = 0 /\ qres = -1 /\ qstart = <<0, 0>> /\ qend = <<0, 0>>

InitQuad ==
    /\ samples = GaussSamples
    /\ EvalIdle
    /\ qi = 0 /\ rotationFactors = <<>> /\ qsum = 0 /\ qres = -1
    /\ \/ /\ qpc = "init_loop"
          /\ segments \in 1..MaxSegments
          /\ qstart = <<0, 0>> /\ qend = <<0, 0>>
       \/ /\ qpc = "gen_loop"
          /\ segments = 0
          /\ qstart \in Points /\ qend \in Points

CircleInitStep ==
    /\ qpc = "init_loop" /\ qi < segments * Len(samples)
    /\ rotationFactors' = Append(rotationFactors, ArcAbscissa(samples, qi))
    /\ qi' = qi + 1
    /\ UNCHANGED <<samples, qpc, segments, qsum, qres, qstart, qend, evalVars>>

CircleInitDone ==
    /\ qpc = "init_loop" /\ qi = segments * Len(samples)
    /\ qpc' = "integrate_loop" /\ qi' = 0
    /\ UNCHANGED <<samples, segments, rotationFactors, qsum, qres, qstart, qend, evalVars>>

IntegrateStep ==
    /\ qpc = "integrate_loop" /\ qi < Len(rotationFactors)
    /\ qsum' = qsum + IntegrateTerm(samples, rotationFactors, qi)
    /\ qi' = qi + 1
    /\ UNCHANGED <<samples, qpc, segments, rotationFactors, qres, qstart, qend, evalVars>>

IntegrateReturn ==
    /\ qpc = "integrate_loop" /\ qi = Len(rotationFactors)
    /\ qres' = IntegrateScale(qsum, segments)
    /\ qpc' = "integrate_done"
    /\ UNCHANGED <<samples, segments, qi, rotationFactors, qsum, qstart, qend, evalVars>>

QuadGenStep ==
    /\ qpc = "gen_loop" /\ qi < Len(LocalSamples)
    /\ qsum' = qsum + GenTerm(qstart, qend, qi)
    /\ qi' = qi + 1
    /\ UNCHANGED <<samples, qpc, segments, rotationFactors, qres, qstart, qend, evalVars>>

QuadGenReturn ==
    /\ qpc = "gen_loop" /\ qi = Len(LocalSamples)
    /\ qres' = GenScale(qsum, qstart, qend)
    /\ qpc' = "gen_done"
    /\ UNCHANGED <<samples, segments, qi, rotationFactors, qsum, qstart, qend, evalVars>>

(* ======================= the kernel evaluators ======================== *)
KValues == {-1, 0, 1}
PPoints == {<<1, 0>>, <<MaxR, MaxZ>>}
Normals == {<<0, 1>>}
Evaluators == {"ComputeL", "ComputeM", "ComputeMt", "ComputeN"}

ArgSet == {MakeArgs(fn, k, p, vecp, qa, qb, on) :
              fn \in Evaluators, k \in KValues, p \in PPoints, vecp \in Normals,
              qa \in Points, qb \in Points, on \in BOOLEAN}

(* ---- names: what a kernel's circleFunc reads from outside itself ----- *)
ModuleGlobals ==
    {"np", "norm", "ComplexQuad", "Normal2D", "CircularIntegratorPi",
     "ComplexQuadGenerator", "ComplexQuadCone",
     "ComputeL", "ComputeM", "ComputeMt", "ComputeN"}
GeneratorLocals == {"x", "circle", "r", "z", "p3", "circleFunc"}
EvaluatorLocals(fn) ==
    CASE fn = "ComputeL"  -> {"k", "p", "qa", "qb", "pOnElement", "qab", "q", "nSections",
                              "ap", "generatorFunc"}
      [] fn = "ComputeM"  -> {"k", "p", "qa", "qb", "pOnElement", "qab", "vec_q", "q",
                              "nSections", "generatorFunc"}
      [] fn = "ComputeMt" -> {"k", "p", "vecp", "qa", "qb", "pOnElement", "qab", "q",
                              "nSections", "generatorFunc"}
      [] fn = "ComputeN"  -> {"k", "p", "vecp", "qa", "qb", "pOnElement", "qab", "vec_q",
                              "q", "nSections", "vecp3", "coneFunc", "lenAB", "direction",
                              "tip_a", "nConeSectionsA", "coneValA", "tip_b",
                              "nConeSectionsB", "coneValB", "generatorFunc"}
Visible(fn) == ModuleGlobals \cup EvaluatorLocals(fn) \cup GeneratorLocals

\* the two names whose components enter the dot product of R with the
\* collocation-point normal, in the order of the source expression
NormalNames(kern) ==
    CASE kern = "Mt0" -> <<"vecp", "vec">>
      [] kern = "Mtk" -> <<"vecp", "vecp">>
      [] kern \in {"Nk_on", "N0_off", "Nk_off"} -> <<"vecp", "vecp">>
      [] kern = "N0_cone" -> <<"vecp3", "vecp3">>
      [] OTHER -> <<>>
FreeNames(kern) ==
    {"np", "norm", "r", "z", "p3"}
    \cup {NormalNames(kern)[j] : j \in 1..Len(NormalNames(kern))}
    \cup (IF kern \in {"Lk_on", "Lk_off", "Mk", "Mtk", "Nk_on", "N0_off", "Nk_off"}
          THEN {"k"} ELSE {})
    \cup (IF kern \in {"M0", "Mk", "Nk_on", "N0_off", "Nk_off"} THEN {"vec_q"} ELSE {})
    \cup (IF kern = "N0_cone" THEN {"direction"} ELSE {})
KernelRaises(fn, kern) == \E nm \in FreeNames(kern) : nm \notin Visible(fn)

(* ------------------- the head of every evaluator ---------------------- *)
\* q = 0.5 * (qa + qb); nSections = 1 + int(q[0] * np.pi / norm(qab))
QMidR(qa, qb) == ((qa[1] + qb[1]) * Scale) \div 2
NSections(qa, qb) ==
    1 + (QMidR(qa, qb) * PiFix) \div (Scale * NormFix(Sub(qb, qa)))
\* norm(qab) = 0: the float division gives inf (q[0] > 0) or nan (q[0] = 0)
\* and int() raises on either
HeadError(qa, qb) ==
    IF NormFix(Sub(qb, qa)) # 0 THEN "none"
    ELSE IF QMidR(qa, qb) > 0 THEN "OverflowError" ELSE "ValueError"

BranchOf(fn, k, on) ==
    CASE fn = "ComputeL"  -> IF on THEN (IF k = 0 THEN "L_on_static" ELSE "L_on_dynamic")
                                   ELSE (IF k = 0 THEN "L_off_static" ELSE "L_off_dynamic")
      [] fn = "ComputeM"  -> IF k = 0 THEN (IF on THEN "M_on_static" ELSE "M_off_static")
                                      ELSE (IF on THEN "M_on_dynamic" ELSE "M_off_dynamic")
      [] fn = "ComputeMt" -> IF k = 0 THEN (IF on THEN "Mt_on_static" ELSE "Mt_off_static")
                                      ELSE (IF on THEN "Mt_on_dynamic" ELSE "Mt_off_dynamic")
      [] fn = "ComputeN"  -> IF on THEN (IF k = 0 THEN "N_on_static" ELSE "N_on_dynamic")
                                   ELSE (IF k = 0 THEN "N_off_static" ELSE "N_off_dynamic")
IsDynamic(branch) ==
    branch \in {"L_on_dynamic", "L_off_dynamic", "M_on_dynamic", "M_off_dynamic",
                "Mt_on_dynamic", "Mt_off_dynamic", "N_on_dynamic", "N_off_dynamic"}

(* --------- the return expression of each branch, left to right -------- *)
\* coef2 is twice the coefficient of the operand in the returned sum;
\* mult multiplies nSections to the panel count of the azimuthal integrator
QuadStmt(prim, kern, from, to, mult, coef2) ==
    [kind |-> "quad", prim |-> prim, kern |-> kern, from |-> from, to |-> to,
     mult |-> mult, coef2 |-> coef2]
CallStmt(fn, k, coef2) == [kind |-> "call", fn |-> fn, k |-> k, coef2 |-> coef2]
ConeSetupStmt(side) == [kind |-> "cone_setup", side |-> side]
ConeStmt(side, coef2) ==
    [kind |-> "cone", prim |-> "ComplexQuadCone", kern |-> "N0_cone",
     from |-> side, to |-> "tip", mult |-> 1, coef2 |-> coef2]

\* mutant: the singular point p is passed as the end of each piece
BodyLOnStaticSwapped ==
    << QuadStmt("ComplexQuadGenerator", "L0_on", "qa", "p", 2, 2),
       QuadStmt("ComplexQuadGenerator", "L0_on", "p", "qb", 2, 2) >>
BodyLOnStatic ==
    << QuadStmt("ComplexQuadGenerator", "L0_on", "p", "qa", 2, 2),
       QuadStmt("ComplexQuadGenerator", "L0_on", "p", "qb", 2, 2) >>
\* mutant: the static call passes the caller's wavenumber on
LSameK(k) == k
LStaticK(k) == 0
BodyLOnDynamic(k) ==
    << CallStmt("ComputeL", LStaticK(k), 2),
       QuadStmt("ComplexQuad", "Lk_on", "qa", "qb", 2, 2) >>
BodyLOff(kern) == << QuadStmt("ComplexQuad", kern, "qa", "qb", 1, 2) >>
BodySplit(kern) ==
    << QuadStmt("ComplexQuad", kern, "qa", "p", 1, 2),
       QuadStmt("ComplexQuad", kern, "p", "qb", 1, 2) >>
BodyDirect(kern) == << QuadStmt("ComplexQuad", kern, "qa", "qb", 1, 2) >>
\* mutant: both directions are assigned before the first cone integral
BodyNOnStaticHoisted ==
    << ConeSetupStmt("qa"), ConeSetupStmt("qb"), ConeStmt("qa", -2), ConeStmt("qb", -2) >>
BodyNOnStatic ==
    << ConeSetupStmt("qa"), ConeStmt("qa", -2), ConeSetupStmt("qb"), ConeStmt("qb", -2) >>
BodyNOnDynamic(k) ==
    << CallStmt("ComputeN", 0, 2),
       CallStmt("ComputeL", 0, -(k * k)),
       QuadStmt("ComplexQuad", "Nk_on", "qa", "p", 1, 2),
       QuadStmt("ComplexQuad", "Nk_on", "p", "qb", 1, 2) >>

Body(branch, k) ==
    CASE branch = "L_on_static"    -> BodyLOnStatic
      [] branch = "L_on_dynamic"   -> BodyLOnDynamic(k)
      [] branch = "L_off_static"   -> BodyLOff("L0_off")
      [] branch = "L_off_dynamic"  -> BodyLOff("Lk_off")
      [] branch = "M_on_static"    -> BodySplit("M0")
      [] branch = "M_off_static"   -> BodyDirect("M0")
      [] branch = "M_on_dynamic"   -> BodySplit("Mk")
      [] branch = "M_off_dynamic"  -> BodyDirect("Mk")
      [] branch = "Mt_on_static"   -> BodySplit("Mt0")
      [] branch = "Mt_off_static"  -> BodyDirect("Mt0")
      [] branch = "Mt_on_dynamic"  -> BodySplit("Mtk")
      [] branch = "Mt_off_dynamic" -> BodyDirect("Mtk")
      [] branch = "N_on_static"    -> BodyNOnStatic
      [] branch = "N_on_dynamic"   -> BodyNOnDynamic(k)
      [] branch = "N_off_static"   -> BodyDirect("N0_off")
      [] branch = "N_off_dynamic"  -> BodyDirect("Nk_off")
      [] OTHER -> <<>>

(* ------------------------- the cone set-up ---------------------------- *)
\* direction = np.sign(this[1] - other[1]); a tie falls back to +1 on the
\* qa side and to -1 on the qb side
ConeDirection(side, qa, qb) ==
    IF side = "qa"
    THEN (IF Sign(qa[2] - qb[2]) = 0 THEN 1 ELSE Sign(qa[2] - qb[2]))
    ELSE (IF Sign(qb[2] - qa[2]) = 0 THEN -1 ELSE Sign(qb[2] - qa[2]))
ConeTip(pt, direction) == <<0, pt[2] + direction * pt[1]>>
NConeSections(pt, qa, qb) ==
    (pt[1] * Scale * Sqrt2Fix) \div (Scale * NormFix(Sub(qb, qa))) + 1

(* --------------------------- frames ----------------------------------- *)
NoQuad ==
    [active |-> FALSE, prim |-> "", kern |-> "", start |-> <<0, 0>>, end |-> <<0, 0>>,
     segs |-> 0, panels |-> 0, coef2 |-> 0, evals |-> 0, circ |-> FALSE,
     rot |-> {}, dirs |-> {}]
EntryFrame(fn, k, on) ==
    [fn |-> fn, k |-> k, pOnElement |-> on, branch |-> "entry", ip |-> 1,
     nSections |-> 0, direction |-> 0, tip |-> <<0, 0>>, nCone |-> 0,
     acc |-> <<>>, quad |-> NoQuad]
Top(t) == stack[t][Len(stack[t])]
SetTop(t, f) == [stack EXCEPT ![t] = [@ EXCEPT ![Len(@)] = f]]
Running(t) == outcome[t] = "running" /\ Len(stack[t]) > 0
AtStmt(t) ==
    /\ Running(t)
    /\ Top(t).branch # "entry"
    /\ ~Top(t).quad.active
    /\ Top(t).ip <= Len(Body(Top(t).branch, Top(t).k))
CurStmt(t) == Body(Top(t).branch, Top(t).k)[Top(t).ip]
PointOf(name, t) ==
    CASE name = "p"  -> args[t].p
      [] name = "qa" -> args[t].qa
      [] name = "qb" -> args[t].qb
      [] name = "tip" -> Top(t).tip
\* mutant: the attributes are assigned on the class, shared by all calls
OwnerShared(t) == 1
\* the object whose attributes __init__ assigns: the new instance, which
\* only the creating call holds
Owner(t) == t
\* samples per call of a line quadrature: the table of ComplexQuadGenerator,
\* and the fixed 8-point rule of ComplexQuad (Jupyter.HelmholtzIntegrals2D)
ComplexQuadPoints == 8
QuadPoints(prim) ==
    IF prim = "ComplexQuadGenerator" THEN Len(LocalSamples) ELSE ComplexQuadPoints
TermOf(q) ==
    [coef2 |-> q.coef2, prim |-> q.prim, kern |-> q.kern, start |-> q.start,
     end |-> q.end, segs |-> q.segs, evals |-> q.evals, rot |-> q.rot, dirs |-> q.dirs]
Scaled(terms, coef2) ==
    [j \in 1..Len(terms) |-> [terms[j] EXCEPT !.coef2 = (@ * coef2) \div 2]]

Raise(t, err) ==
    /\ outcome' = [outcome EXCEPT ![t] = err]
    /\ stack' = [stack EXCEPT ![t] = <<>>]
    /\ UNCHANGED <<args, result>>

(* --------------------------- the steps -------------------------------- *)
\* ComputeM and ComputeN first call Normal2D(qa, qb) (Jupyter.Geometry), which
\* is taken to return for every pair of points.
Enter(t) ==
    /\ Running(t) /\ Top(t).branch = "entry"
    /\ LET f == Top(t)
           err == HeadError(args[t].qa, args[t].qb)
       IN  IF err # "none"
           THEN Raise(t, err)
           ELSE /\ stack' = SetTop(t, [f EXCEPT
                                 !.nSections = NSections(args[t].qa, args[t].qb),
                                 !.branch = BranchOf(f.fn, f.k, f.pOnElement)])
                /\ UNCHANGED <<args, outcome, result>>
    /\ UNCHANGED <<samples, heap, quadVars>>

StmtCall(t) ==
    /\ AtStmt(t) /\ CurStmt(t).kind = "call"
    /\ IF Len(stack[t]) >= RecursionLimit
       THEN Raise(t, "RecursionError")
       ELSE /\ stack' = [stack EXCEPT ![t] =
                            Append(@, EntryFrame(CurStmt(t).fn, CurStmt(t).k, TRUE))]
            /\ UNCHANGED <<args, outcome, result>>
    /\ UNCHANGED <<samples, heap, quadVars>>

StmtConeSetup(t) ==
    /\ AtStmt(t) /\ CurStmt(t).kind = "cone_setup"
    /\ LET f == Top(t)
           pt == PointOf(CurStmt(t).side, t)
           d == ConeDirection(CurStmt(t).side, args[t].qa, args[t].qb)
       IN  stack' = SetTop(t, [f EXCEPT !.direction = d,
                                        !.tip = ConeTip(pt, d),
                                        !.nCone = NConeSections(pt, args[t].qa, args[t].qb),
                                        !.ip = @ + 1])
    /\ UNCHANGED <<samples, args, heap, outcome, result, quadVars>>

StmtQuadStart(t) ==
    /\ AtStmt(t) /\ CurStmt(t).kind \in {"quad", "cone"}
    /\ LET f == Top(t)
           s == CurStmt(t)
       IN  stack' = SetTop(t, [f EXCEPT !.quad =
                [active |-> TRUE, prim |-> s.prim, kern |-> s.kern,
                 start |-> PointOf(s.from, t), end |-> PointOf(s.to, t),
                 segs |-> IF s.kind = "cone" THEN f.nCone ELSE 1,
                 panels |-> s.mult * f.nSections, coef2 |-> s.coef2,
                 evals |-> 0, circ |-> FALSE, rot |-> {}, dirs |-> {}]])
    /\ UNCHANGED <<samples, args, heap, outcome, result, quadVars>>

\* generatorFunc / coneFunc, first statement: circle = CircularIntegratorPi(n)
GenConstruct(t) ==
    /\ Running(t) /\ Top(t).quad.active /\ ~Top(t).quad.circ
    /\ Top(t).quad.evals < Top(t).quad.segs * QuadPoints(Top(t).quad.prim)
    /\ heap' = [heap EXCEPT ![Owner(t)] = CircularIntegratorPi(samples, Top(t).quad.panels)]
    /\ stack' = SetTop(t, [Top(t) EXCEPT !.quad.circ = TRUE])
    /\ UNCHANGED <<samples, args, outcome, result, quadVars>>

\* generatorFunc / coneFunc, last statement: circle.integrate(circleFunc)
GenIntegrate(t) ==
    /\ Running(t) /\ Top(t).quad.active /\ Top(t).quad.circ
    /\ LET f == Top(t)
           inst == heap[Owner(t)]
       IN  IF Len(inst.rotationFactors) > 0 /\ KernelRaises(f.fn, f.quad.kern)
           THEN Raise(t, "NameError")
           ELSE /\ stack' = SetTop(t, [f EXCEPT
                      !.quad.circ = FALSE,
                      !.quad.evals = @ + 1,
                      !.quad.rot = @ \cup {<<inst.segments, Len(inst.rotationFactors)>>},
                      !.quad.dirs = IF f.quad.prim = "ComplexQuadCone"
                                    THEN @ \cup {f.direction} ELSE @])
                /\ UNCHANGED <<args, outcome, result>>
    /\ UNCHANGED <<samples, heap, quadVars>>

QuadFinish(t) ==
    /\ Running(t) /\ Top(t).quad.active /\ ~Top(t).quad.circ
    /\ Top(t).quad.evals = Top(t).quad.segs * QuadPoints(Top(t).quad.prim)
    /\ stack' = SetTop(t, [Top(t) EXCEPT !.acc = Append(@, TermOf(Top(t).quad)),
                                         !.quad = NoQuad,
                                         !.ip = @ + 1])
    /\ UNCHANGED <<samples, args, heap, outcome, result, quadVars>>

Return(t) ==
    /\ Running(t) /\ Top(t).branch # "entry" /\ ~Top(t).quad.active
    /\ Top(t).ip > Len(Body(Top(t).branch, Top(t).k))
    /\ IF Len(stack[t]) = 1
       THEN /\ outcome' = [outcome EXCEPT ![t] = "value"]
            /\ result' = [result EXCEPT ![t] = Top(t).acc]
            /\ stack' = [stack EXCEPT ![t] = <<>>]
       ELSE /\ LET caller == stack[t][Len(stack[t]) - 1]
                   coef2 == Body(caller.branch, caller.k)[caller.ip].coef2
               IN  stack' = [stack EXCEPT ![t] =
                       Append(SubSeq(@, 1, Len(@) - 2),
                              [caller EXCEPT !.acc = @ \o Scaled(Top(t).acc, coef2),
                                             !.ip = @ + 1])]
            /\ UNCHANGED <<outcome, result>>
    /\ UNCHANGED <<samples, args, heap, quadVars>>

Step(t) ==
    \/ Enter(t)
    \/ StmtCall(t)
    \/ StmtConeSetup(t)
    \/ StmtQuadStart(t)
    \/ GenConstruct(t)
    \/ GenIntegrate(t)
    \/ QuadFinish(t)
    \/ Return(t)

(* ------------------------ specifications ------------------------------ *)
InitEval ==
    /\ samples = GaussSamples
    /\ QuadIdle
    /\ \E a \in ArgSet :
          /\ args = [t \in Threads |-> IF t = 1 THEN a ELSE NoArgs]
          /\ stack = [t \in Threads |->
                         IF t = 1 THEN <<EntryFrame(a.fn, a.k, a.pOnElement)>> ELSE <<>>]
    /\ heap = [t \in Threads |-> NoInstance]
    /\ outcome = [t \in Threads |-> IF t = 1 THEN "running" ELSE "idle"]
    /\ result = [t \in Threads |-> <<>>]

NextQuad ==
    \/ CircleInitStep
    \/ CircleInitDone
    \/ IntegrateStep
    \/ IntegrateReturn
    \/ QuadGenStep
    \/ QuadGenReturn
NextEval == \E t \in Threads : Step(t)

SpecQuad == InitQuad /\ [][NextQuad]_vars
Spec == InitEval /\ [][NextEval]_vars /\ WF_vars(NextEval)

(* --------------- two concurrent calls on independent pairs ------------ *)
ConcArgs ==
    { MakeArgs("ComputeN", 1, <<1, 0>>, <<1, 0>>, <<1, 0>>, <<1, 1>>, TRUE),
      MakeArgs("ComputeL", 0, <<2, 1>>, <<0, 1>>, <<0, 0>>, <<1, 0>>, FALSE),
      MakeArgs("ComputeMt", 0, <<2, 1>>, <<0, 1>>, <<0, 0>>, <<1, 0>>, FALSE),
      MakeArgs("ComputeM", 1, <<1, 0>>, <<0, 1>>, <<1, 1>>, <<1, 1>>, FALSE) }

InitConc ==
    /\ samples = GaussSamples
    /\ QuadIdle
    /\ args \in [Threads -> ConcArgs]
    /\ stack = [t \in Threads |-> <<EntryFrame(args[t].fn, args[t].k, args[t].pOnElement)>>]
    /\ heap = [t \in Threads |-> NoInstance]
    /\ outcome = [t \in Threads |-> "running"]
    /\ result = [t \in Threads |-> <<>>]

SpecConc == InitConc /\ [][NextEval]_vars

(* ------ the value of one call run alone, as a function of its arguments *)
ArgPoint(name, a) ==
    CASE name = "p" -> a.p [] name = "qa" -> a.qa [] name = "qb" -> a.qb
AloneQuad(s, a) ==
    LET n    == NSections(a.qa, a.qb)
        cone == s.kind = "cone"
        d    == IF cone THEN ConeDirection(s.from, a.qa, a.qb) ELSE 0
        segs == IF cone THEN NConeSections(ArgPoint(s.from, a), a.qa, a.qb) ELSE 1
    IN  [coef2 |-> s.coef2, prim |-> s.prim, kern |-> s.kern,
         start |-> ArgPoint(s.from, a),
         end |-> IF cone THEN ConeTip(ArgPoint(s.from, a), d) ELSE ArgPoint(s.to, a),
         segs |-> segs, evals |-> segs * QuadPoints(s.prim),
         rot |-> {<<s.mult * n, s.mult * n * Len(GaussSamples)>>},
         dirs |-> IF cone THEN {d} ELSE {}]
RECURSIVE AloneTerms(_, _, _, _)
AloneTerms(branch, k, a, j) ==
    IF j > Len(Body(branch, k)) THEN <<>>
    ELSE LET s == Body(branch, k)[j]
             here == CASE s.kind = "call" ->
                             Scaled(AloneTerms(BranchOf(s.fn, s.k, TRUE), s.k, a, 1), s.coef2)
                       [] s.kind = "cone_setup" -> <<>>
                       [] OTHER -> <<AloneQuad(s, a)>>
         IN  here \o AloneTerms(branch, k, a, j + 1)
AloneBranch(a) == BranchOf(a.fn, a.k, a.pOnElement)
AloneRaises(a) ==
    LET terms == AloneTerms(AloneBranch(a), a.k, a, 1)
    IN  \E j \in 1..Len(terms) : KernelRaises(a.fn, terms[j].kern)
AloneOutcome(a) ==
    IF HeadError(a.qa, a.qb) # "none" THEN HeadError(a.qa, a.qb)
    ELSE IF AloneRaises(a) THEN "NameError" ELSE "value"
AloneResult(a) ==
    IF AloneOutcome(a) = "value" THEN AloneTerms(AloneBranch(a), a.k, a, 1) ELSE <<>>

(* ============================== claims ================================ *)
Abs(x) == IF x < 0 THEN -x ELSE x
WeightSum(tab) == LET RECURSIVE S(_) S(j) == IF j = 0 THEN 0 ELSE tab[j][2] + S(j - 1)
                  IN  S(Len(tab))
Finished(t) == outcome[t] \notin {"running", "idle"}
WellFormed(a) == a.fn \in Evaluators /\ a.k >= 0 /\ a.qa # a.qb

\* C1: every precomputed sample i of CircularIntegratorPi(n) lies in panel
\* floor(i/8) at the angle (floor(i/8) + a[i mod 8]) * pi/n, hence in [0, pi].
\* The code adds the fraction i/8 instead: sample 1 of one panel is at 1.0233 pi.
C1_SamplesInTheirPanel ==
    \A j \in 1..Len(rotationFactors) :
        LET i == j - 1
            panel == i \div Len(samples)
        IN  /\ rotationFactors[j] = panel * Scale + samples[(i % Len(samples)) + 1][1]
            /\ panel * Scale <= rotationFactors[j]
            /\ rotationFactors[j] <= (panel + 1) * Scale
            /\ 0 <= rotationFactors[j] /\ rotationFactors[j] <= segments * Scale

\* C2 as claimed: ComplexQuadGenerator of the constant 1 over [start, end],
\* start # end, returns 2 * ||end - start||.
C2_ReturnsTwiceLength ==
    (qpc = "gen_done" /\ qstart # qend) =>
        Abs(qres - 2 * NormFix(Sub(qend, qstart))) <= Tol
\* C2 as amended: ComplexQuadGenerator of the constant 1 over [start, end]
\* returns ||end - start||, the length of the segment (the weighted sum
\* of the abscissae is 1/2, which the factor 2 cancels).
C2_ReturnsLength ==
    qpc = "gen_done" => Abs(qres - NormFix(Sub(qend, qstart))) <= Tol
C2_Witness == qpc = "gen_done" /\ qstart # qend /\ qres >= Scale

\* C7: CircularIntegratorPi(n).integrate of the constant 1 returns pi for every
\* n >= 1: the 8n weights sum to n times the weight-table sum, scaled by pi/n.
C7_IntegrateOneIsPi ==
    qpc = "integrate_done" =>
        /\ qsum = segments * WeightSum(samples)
        /\ Abs(qres - PiFix) <= Tol
C7_Witness == qpc = "integrate_done" /\ segments >= 2 /\ Len(rotationFactors) = 8 * segments

\* C3: for every well-formed call ComputeMt returns a value and never ends in
\* an unhandled error, and every kernel whose integral it returns takes both
\* components of the dot product with the normal from vecp.
C3_MtReturnsAndUsesVecp ==
    \A t \in Threads :
        (args[t].fn = "ComputeMt" /\ WellFormed(args[t])) =>
            /\ outcome[t] \in {"running", "value"}
            /\ \A j \in 1..Len(result[t]) :
                   NormalNames(result[t][j].kern) = <<"vecp", "vecp">>

\* C4: a call with a degenerate element (qa = qb) ends at once in a domain
\* error naming the degenerate geometry.
C4_DegenerateIsDomainError ==
    \A t \in Threads :
        (args[t].fn \in Evaluators /\ args[t].qa = args[t].qb /\ outcome[t] # "running") =>
            outcome[t] = "DegenerateGeometry"

\* C5: a call with a negative wavenumber fails with an invalid-parameter error,
\* returns no value and never enters a dynamic kernel branch.
C5_NegativeKRejected ==
    \A t \in Threads :
        (args[t].fn \in Evaluators /\ args[t].k < 0) =>
            /\ outcome[t] \in {"running", "InvalidParameter"}
            /\ \A j \in 1..Len(stack[t]) : ~IsDynamic(stack[t][j].branch)

\* C6: no call writes the shared sample table or its arguments, and in every
\* interleaving of two concurrent calls each call ends as it does when run alone.
C6_Reentrant ==
    /\ samples = GaussSamples
    /\ \A t \in Threads :
          /\ args[t] \in ConcArgs
          /\ Finished(t) =>
                /\ outcome[t] = AloneOutcome(args[t])
                /\ result[t] = AloneResult(args[t])
C6_Witness ==
    /\ \A t \in Threads : outcome[t] = "value"
    /\ args[1].fn = "ComputeN" /\ args[2].fn = "ComputeL"
    /\ Len(result[1]) = 6 /\ Len(result[2]) = 1

C8_Depth ==
    \A t \in Threads :
        /\ Len(stack[t]) <= 2
        /\ Len(stack[t]) = 2 =>
              LET caller == stack[t][1]
                  callee == stack[t][2]
              IN  /\ caller.branch \in {"L_on_dynamic", "N_on_dynamic"}
                  /\ caller.k # 0 /\ caller.pOnElement
                  /\ callee.k = 0 /\ callee.pOnElement
                  /\ caller.fn = "ComputeL" => callee.fn = "ComputeL"
                  /\ caller.fn = "ComputeN" => callee.fn \in {"ComputeN", "ComputeL"}
        /\ outcome[t] # "RecursionError"
\* C8: every call terminates, with at most two evaluator frames: only the
\* dynamic on-element branches of ComputeL and ComputeN call an evaluator, and
\* only at k = 0 on the element (ComputeL calls ComputeL; ComputeN calls
\* ComputeN and ComputeL).
C8_DepthTwoAndTerminates ==
    /\ []C8_Depth
    /\ <>(\A t \in Threads : outcome[t] # "running")
C8_Witness ==
    /\ Len(stack[1]) = 2
    /\ stack[1][1].fn = "ComputeN" /\ stack[1][2].fn = "ComputeL"
    /\ stack[1][2].quad.active

C9_Term(a, to, mult) ==
    LET n == NSections(a.qa, a.qb)
    IN  [coef2 |-> 2, prim |-> "ComplexQuadGenerator", kern |-> "L0_on",
         start |-> a.p, end |-> to, segs |-> 1, evals |-> Len(LocalSamples),
         rot |-> {<<mult * n, 8 * mult * n>>}, dirs |-> {}]
\* C9: ComputeL at k = 0 with p on the element is the sum of exactly two
\* ComplexQuadGenerator integrals, both started at p, one ending at qa and one
\* at qb, each at 2 * nSections azimuthal panels; off the element the single
\* integral uses nSections panels.
C9_StaticSingularSplit ==
    \A t \in Threads :
        (args[t].fn = "ComputeL" /\ args[t].k = 0 /\ outcome[t] = "value") =>
            IF args[t].pOnElement
            THEN result[t] = << C9_Term(args[t], args[t].qa, 2),
                                C9_Term(args[t], args[t].qb, 2) >>
            ELSE /\ Len(result[t]) = 1
                 /\ result[t][1].rot =
                        {<<NSections(args[t].qa, args[t].qb),
                           8 * NSections(args[t].qa, args[t].qb)>>}
C9_Witness ==
    /\ args[1].fn = "ComputeL" /\ args[1].k = 0 /\ args[1].pOnElement
    /\ outcome[1] = "value" /\ Len(result[1]) = 2
    /\ args[1].p # args[1].qa /\ args[1].p # args[1].qb

C10_DirA(a) == IF a.qa[2] > a.qb[2] THEN 1 ELSE IF a.qa[2] < a.qb[2] THEN -1 ELSE 1
C10_DirB(a) == IF a.qb[2] > a.qa[2] THEN 1 ELSE IF a.qb[2] < a.qa[2] THEN -1 ELSE -1
C10_Cone(a, q, d) ==
    [coef2 |-> -2, prim |-> "ComplexQuadCone", kern |-> "N0_cone",
     start |-> q, end |-> <<0, q[2] + d * q[1]>>,
     segs |-> NConeSections(q, a.qa, a.qb),
     evals |-> NConeSections(q, a.qa, a.qb) * QuadPoints("ComplexQuadCone"),
     rot |-> {<<NSections(a.qa, a.qb), 8 * NSections(a.qa, a.qb)>>}, dirs |-> {d}]
\* C10: in ComputeN at k = 0 with p on the element the qa-side direction is
\* sign(qa.z - qb.z) with a tie giving +1, the qb-side direction is
\* sign(qb.z - qa.z) with a tie giving -1, so the two are opposite and in
\* {-1, +1}; each apex is (0, q.z + direction * q.r); every evaluation of a
\* cone integral reads the direction of its own side; the result is the
\* negated sum of the two cone integrals.
C10_ConeDirections ==
    \A t \in Threads :
        LET a == args[t]
        IN  /\ (a.fn = "ComputeN" /\ a.k = 0 /\ a.pOnElement /\ outcome[t] = "value") =>
                  /\ C10_DirA(a) = -C10_DirB(a)
                  /\ C10_DirA(a) \in {-1, 1}
                  /\ result[t] =
                        << C10_Cone(a, a.qa, C10_DirA(a)), C10_Cone(a, a.qb, C10_DirB(a)) >>
            /\ \A j \in 1..Len(stack[t]) :
                  LET f == stack[t][j]
                  IN  (f.branch = "N_on_static" /\ f.quad.active) =>
                          /\ f.ip \in {2, 4}
                          /\ f.quad.dirs \subseteq
                                 {IF f.ip = 2 THEN C10_DirA(a) ELSE C10_DirB(a)}
                          /\ f.quad.start = IF f.ip = 2 THEN a.qa ELSE a.qb
                          /\ f.direction = IF f.ip = 2 THEN C10_DirA(a) ELSE C10_DirB(a)
C10_Witness ==
    /\ args[1].fn = "ComputeN" /\ args[1].k = 0 /\ args[1].pOnElement
    /\ outcome[1] = "value" /\ Len(result[1]) = 2
    /\ args[1].qa[2] = args[1].qb[2] /\ args[1].qa # args[1].qb
    /\ result[1][1].dirs = {1} /\ result[1][2].dirs = {-1}

====
